---- MODULE Spec2Model ----
(***************************************************************************)
(* Model of main.py: Kite authentication (AuthenticationManager), the      *)
(* yfinance download loop (MarketDataFetcher, ZerodhaBacktestingWorkflow)  *)
(* and the data directory scan (DataStorageManager).                       *)
(*                                                                         *)
(* Strings the code inspects are sequences: a token or the credential      *)
(* file's content is a sequence of characters, a file name of the data     *)
(* directory is a sequence of parts (<<"TCS", ".csv">> is "TCS.csv").      *)
(***************************************************************************)
EXTENDS Integers, Sequences, FiniteSets, TLC

\* ------------------------------------------------------------------ bounds
MaxTokLen == 2
NumStocks == 2
MaxCandles == 2

\* ------------------------------------------------------------------ Config
AllStocks ==
  <<"RELIANCE", "TCS", "INFY", "HDFCBANK", "ICICIBANK",
    "HINDUNILVR", "ITC", "SBIN", "BHARTIARTL", "LT">>

STOCKS == SubSeq(AllStocks, 1, NumStocks)

StockSet == {STOCKS[k] : k \in 1..Len(STOCKS)}

\* ------------------------------------------------------------------ strings
TokChars == {"a", "b", " "}
Whitespace == {" "}

BoundedSeq(S, n) == UNION {[1..k -> S] : k \in 0..n}

\* What generate_session can hand back as data["access_token"].
Tokens == BoundedSeq(TokChars, MaxTokLen) \ {<<>>}

None == <<"None">>
NoFile == <<"ENOENT">>

RECURSIVE lstrip(_)
lstrip(s) ==
  IF s = <<>> THEN s
  ELSE IF Head(s) \in Whitespace THEN lstrip(Tail(s)) ELSE s

RECURSIVE rstrip(_)
rstrip(s) ==
  IF s = <<>> THEN s
  ELSE IF s[Len(s)] \in Whitespace THEN rstrip(SubSeq(s, 1, Len(s) - 1)) ELSE s

strip(s) == rstrip(lstrip(s))

Min(a, b) == IF a < b THEN a ELSE b

\* ------------------------------------------------------------------ state
VARIABLES
  token_file,        \* content of access_token.txt, or NoFile
  access_token,      \* AuthenticationManager.access_token
  kite_token,        \* token installed on the KiteConnect client
  authenticated,     \* AuthenticationManager.authenticated
  dir_exists,        \* historical_data/ exists
  files,             \* entries of historical_data/, by name
  pc,                \* "idle", or the position in fetch_and_save_data's loop
  idx,               \* index into STOCKS of the symbol being processed
  data,              \* what fetch_historical_data returned for that symbol
  success_count,     \* fetch_and_save_data's tally
  op,                \* the operation called last
  outcome,           \* "running", "returned" or "raised"
  ret,               \* the boolean it returned
  auth_before,       \* the authenticated flag when it was called
  exchanged,         \* the token of the last exchange, if that one succeeded
  session_requests,  \* generate_session calls made by the last operation
  trace,             \* provider requests, sleeps and returns of the last operation
  report             \* what get_status_report printed about missing symbols

authVars == <<token_file, access_token, kite_token, authenticated>>
dirVars == <<dir_exists, files>>
loopVars == <<pc, idx, data, success_count>>
vars ==
  <<token_file, access_token, kite_token, authenticated, dir_exists, files,
    pc, idx, data, success_count, op, outcome, ret, auth_before, exchanged,
    session_requests, trace, report>>

\* ------------------------------------------------------------------ AuthenticationManager
Manager ==
  [access_token |-> access_token, kite_token |-> kite_token,
   authenticated |-> authenticated]

NewManager ==
  [access_token |-> None, kite_token |-> None, authenticated |-> FALSE]

InstallToken_no_client(m, tok) ==
  [access_token |-> tok, kite_token |-> m.kite_token, authenticated |-> TRUE]

\* self.access_token = tok; self.kite.set_access_token(tok); self.authenticated = True
InstallToken(m, tok) ==
  [access_token |-> tok, kite_token |-> tok, authenticated |-> TRUE]

AuthenticationFailed_keeps_flag(m) == m

\* except Exception: self.authenticated = False
AuthenticationFailed(m) == [m EXCEPT !.authenticated = FALSE]

\* load_existing_token on manager m with the credential file f; readable is
\* whether open/read succeed.  A missing file and a read error change nothing.
load_existing_token(m, f, readable) ==
  IF f # NoFile /\ readable
  THEN [m |-> InstallToken(m, strip(f)), ret |-> TRUE]
  ELSE [m |-> m, ret |-> FALSE]

Rejected == <<"rejected">>

\* generate_session raises, or returns data whose access_token is a string or null.
Responses == {Rejected, None} \cup Tokens

TokenIo ==
  {[kind |-> "ok", n |-> 0], [kind |-> "open_fails", n |-> 0]}
    \cup {[kind |-> "write_fails", n |-> k] : k \in 0..(MaxTokLen - 1)}

WriteFile_append(old, tok) == IF old = NoFile THEN tok ELSE old \o tok

\* open(TOKEN_FILE, 'w') followed by a complete f.write(tok)
WriteFile(old, tok) == tok

\* authenticate_with_token: resp is generate_session's answer, io what the
\* write of the credential file does.  open(..., 'w') truncates before
\* anything is written; f.write(None) raises TypeError after the open.
authenticate_with_token(m, f, resp, io) ==
  IF resp = Rejected
  THEN [m |-> AuthenticationFailed(m), file |-> f, ret |-> FALSE]
  ELSE LET m1 == InstallToken(m, resp) IN
       IF io.kind = "open_fails"
       THEN [m |-> AuthenticationFailed(m1), file |-> f, ret |-> FALSE]
       ELSE IF resp = None
       THEN [m |-> AuthenticationFailed(m1), file |-> <<>>, ret |-> FALSE]
       ELSE IF io.kind = "write_fails"
       THEN [m |-> AuthenticationFailed(m1),
             file |-> SubSeq(resp, 1, Min(io.n, Len(resp) - 1)),
             ret |-> FALSE]
       ELSE [m |-> m1, file |-> WriteFile(f, resp), ret |-> TRUE]

is_authenticated_always == TRUE

is_authenticated == authenticated

SetManager(m) ==
  /\ access_token' = m.access_token
  /\ kite_token' = m.kite_token
  /\ authenticated' = m.authenticated

NoReport == [reported |-> FALSE, missing |-> {}]

\* ZerodhaBacktestingWorkflow(): a new AuthenticationManager, whose
\* constructor calls load_existing_token.
Construct ==
  /\ pc = "idle"
  /\ \E readable \in BOOLEAN :
       LET r == load_existing_token(NewManager, token_file, readable) IN
       /\ SetManager(r.m)
       /\ ret' = r.ret
  /\ op' = "__init__"
  /\ outcome' = "returned"
  /\ auth_before' = FALSE
  /\ session_requests' = 0
  /\ trace' = <<>>
  /\ report' = NoReport
  /\ UNCHANGED <<token_file, dirVars, loopVars, exchanged>>

LoadExistingToken ==
  /\ pc = "idle"
  /\ \E readable \in BOOLEAN :
       LET r == load_existing_token(Manager, token_file, readable) IN
       /\ SetManager(r.m)
       /\ ret' = r.ret
  /\ op' = "load_existing_token"
  /\ outcome' = "returned"
  /\ auth_before' = authenticated
  /\ session_requests' = 0
  /\ trace' = <<>>
  /\ report' = NoReport
  /\ UNCHANGED <<token_file, dirVars, loopVars, exchanged>>

AuthenticateWithToken ==
  /\ pc = "idle"
  /\ \E resp \in Responses, io \in TokenIo :
       LET r == authenticate_with_token(Manager, token_file, resp, io) IN
       /\ SetManager(r.m)
       /\ token_file' = r.file
       /\ ret' = r.ret
       /\ exchanged' = IF r.ret THEN resp ELSE None
  /\ op' = "authenticate_with_token"
  /\ outcome' = "returned"
  /\ auth_before' = authenticated
  /\ session_requests' = 1
  /\ trace' = <<>>
  /\ report' = NoReport
  /\ UNCHANGED <<dirVars, loopVars>>

\* get_login_url has no handler: an error of kite.login_url() propagates.
GetLoginUrl ==
  /\ pc = "idle"
  /\ \E sdk_ok \in BOOLEAN :
       /\ outcome' = IF sdk_ok THEN "returned" ELSE "raised"
       /\ ret' = sdk_ok
  /\ op' = "get_login_url"
  /\ auth_before' = authenticated
  /\ session_requests' = 0
  /\ trace' = <<>>
  /\ report' = NoReport
  /\ UNCHANGED <<authVars, dirVars, loopVars, exchanged>>

\* ------------------------------------------------------------------ historical_data/
Entry(kind, header, rows) == [kind |-> kind, header |-> header, rows |-> rows]

Absent == Entry("absent", FALSE, <<>>)
SubDir == Entry("dir", FALSE, <<>>)

\* A regular file holding the header line (or not yet) and data rows.
File(header, rows) == Entry("file", header, rows)

Candle(k) == [date |-> k, close |-> 100 + k]

Series(n) == [k \in 1..n |-> Candle(k)]

\* os.path.join(DATA_DIR, f"{symbol}.csv")
Csv(symbol) == <<symbol, ".csv">>

\* Entries the program never writes but the directory may hold: a file named
\* "<symbol>.csv.csv", a file that is no CSV, a subdirectory named "*.csv".
DoubleCsv == <<STOCKS[1], ".csv", ".csv">>
Notes == <<STOCKS[1], ".txt">>
Archive == <<"archive", ".csv">>

FileNames == {Csv(s) : s \in StockSet} \cup {DoubleCsv, Notes, Archive}

\* f.endswith('.csv')
EndsWithCsv(name) == name[Len(name)] = ".csv"

\* s.replace('.csv', ''): every occurrence is removed, not only the suffix.
ReplaceCsv(name) == SelectSeq(name, LAMBDA part : part # ".csv")

\* The name without its last extension.
Stem(name) == SubSeq(name, 1, Len(name) - 1)

\* os.listdir(DATA_DIR)
ListDir(fs) == {name \in FileNames : fs[name].kind # "absent"}

\* setup_directories: os.makedirs when the directory is missing; it has no
\* handler, so a failing makedirs propagates.
setup_directories(exists, mkdir_ok) ==
  IF exists THEN [dir |-> TRUE, raised |-> FALSE]
  ELSE IF mkdir_ok THEN [dir |-> TRUE, raised |-> FALSE]
  ELSE [dir |-> FALSE, raised |-> TRUE]

NoData == [none |-> TRUE, rows |-> <<>>]

\* `not data`: None and the empty list alike
Falsy(d) == d.none \/ d.rows = <<>>

Event(e, sym, ok) == [e |-> e, sym |-> sym, ok |-> ok]

\* yf.download raises, returns an empty frame, or returns n rows whose
\* conversion to floats raises or succeeds.
FetchOutcomes ==
  {[kind |-> "download_error", n |-> 0], [kind |-> "empty", n |-> 0]}
    \cup {[kind |-> k, n |-> n] : k \in {"convert_error", "rows"}, n \in 1..MaxCandles}

rate_limit_never(symbol, out) == <<>>

\* time.sleep(self.rate_limit_delay): reached only after the rows were converted
rate_limit(symbol, out) ==
  IF out.kind = "rows" THEN <<Event("sleep", symbol, TRUE)>> ELSE <<>>

\* fetch_historical_data: one provider request, then the result or None.
fetch_historical_data(symbol, out) ==
  LET result == IF out.kind = "rows"
                THEN [none |-> FALSE, rows |-> Series(out.n)]
                ELSE NoData
  IN  [data |-> result,
       events |-> <<Event("request", symbol, TRUE)>>
                    \o rate_limit(symbol, out)
                    \o <<Event("fetch", symbol, ~Falsy(result))>>]

SaveIo ==
  {[kind |-> "ok", n |-> 0], [kind |-> "open_fails", n |-> 0]}
    \cup {[kind |-> "write_fails", n |-> k] : k \in 0..MaxCandles}

\* The file after the first n lines (header, then rows) reached it.
Written(rows, n) ==
  IF n = 0 THEN File(FALSE, <<>>) ELSE File(TRUE, SubSeq(rows, 1, n - 1))

\* save_data_to_csv on the symbol's entry old: open(filepath, 'w') truncates,
\* then the header and the rows are written; an error while writing is caught
\* after the lines already written reached the file.
save_data_to_csv(old, d, io) ==
  IF Falsy(d) THEN [file |-> old, ret |-> FALSE]
  ELSE IF io.kind = "open_fails" THEN [file |-> old, ret |-> FALSE]
  ELSE IF io.kind = "write_fails"
  THEN [file |-> Written(d.rows, Min(io.n, Len(d.rows))), ret |-> FALSE]
  ELSE [file |-> Written(d.rows, Len(d.rows) + 1), ret |-> TRUE]

csv_files(fs) == {name \in ListDir(fs) : EndsWithCsv(name)}

missing_by_stem(fs) ==
  {s \in StockSet : <<s>> \notin {Stem(name) : name \in csv_files(fs)}}

\* set(Config.STOCKS) - set(s.replace('.csv', '') for s in csv_files)
missing_symbols(fs) ==
  {s \in StockSet : <<s>> \notin {ReplaceCsv(name) : name \in csv_files(fs)}}

\* get_status_report: returns early when the directory is missing; opens
\* every .csv entry to count its lines, with no handler around the open.
get_status_report(exists, fs) ==
  IF ~exists THEN [outcome |-> "returned", report |-> NoReport]
  ELSE IF \E name \in csv_files(fs) : fs[name].kind = "dir"
  THEN [outcome |-> "raised", report |-> NoReport]
  ELSE [outcome |-> "returned",
        report |-> [reported |-> TRUE, missing |-> missing_symbols(fs)]]

\* ------------------------------------------------------------------ ZerodhaBacktestingWorkflow
\* fetch_and_save_data up to the loop: the authentication guard, then
\* setup_directories.
FetchAndSaveData ==
  /\ pc = "idle"
  /\ op' = "fetch_and_save_data"
  /\ auth_before' = authenticated
  /\ session_requests' = 0
  /\ trace' = <<>>
  /\ report' = NoReport
  /\ success_count' = 0
  /\ data' = NoData
  /\ idx' = 1
  /\ IF ~is_authenticated
     THEN /\ outcome' = "returned"
          /\ ret' = FALSE
          /\ pc' = "idle"
          /\ UNCHANGED dirVars
     ELSE \E mkdir_ok \in BOOLEAN :
            LET r == setup_directories(dir_exists, mkdir_ok) IN
            /\ dir_exists' = r.dir
            /\ files' = files
            /\ IF r.raised
               THEN outcome' = "raised" /\ ret' = FALSE /\ pc' = "idle"
               ELSE IF Len(STOCKS) = 0
               THEN outcome' = "returned" /\ ret' = TRUE /\ pc' = "idle"
               ELSE outcome' = "running" /\ ret' = FALSE /\ pc' = "fetch"
  /\ UNCHANGED <<authVars, exchanged>>

\* data = self.fetcher.fetch_historical_data(symbol, days=days)
FetchHistoricalData ==
  /\ pc = "fetch"
  /\ \E out \in FetchOutcomes :
       LET r == fetch_historical_data(STOCKS[idx], out) IN
       /\ data' = r.data
       /\ trace' = trace \o r.events
  /\ pc' = "save"
  /\ UNCHANGED <<authVars, dirVars, idx, success_count, op, outcome, ret,
                 auth_before, exchanged, session_requests, report>>

\* if self.fetcher.save_data_to_csv(symbol, data): success_count += 1
\* and, after the last symbol, return True
SaveDataToCsv ==
  /\ pc = "save"
  /\ \E io \in SaveIo :
       LET symbol == STOCKS[idx]
           r == save_data_to_csv(files[Csv(symbol)], data, io)
       IN  /\ files' = [files EXCEPT ![Csv(symbol)] = r.file]
           /\ trace' = Append(trace, Event("save", symbol, r.ret))
           /\ success_count' = IF r.ret THEN success_count + 1 ELSE success_count
  /\ data' = NoData
  /\ IF idx < Len(STOCKS)
     THEN idx' = idx + 1 /\ pc' = "fetch" /\ UNCHANGED <<outcome, ret>>
     ELSE idx' = idx /\ pc' = "idle" /\ outcome' = "returned" /\ ret' = TRUE
  /\ UNCHANGED <<authVars, dir_exists, op, auth_before, exchanged,
                 session_requests, report>>

GetStatusReport ==
  /\ pc = "idle"
  /\ LET r == get_status_report(dir_exists, files) IN
       /\ outcome' = r.outcome
       /\ report' = r.report
       /\ ret' = FALSE
  /\ op' = "get_status_report"
  /\ auth_before' = authenticated
  /\ session_requests' = 0
  /\ trace' = <<>>
  /\ UNCHANGED <<authVars, dirVars, loopVars, exchanged>>

\* ------------------------------------------------------------------ specifications
NoFiles == [name \in FileNames |-> Absent]

\* The state after ZerodhaBacktestingWorkflow() with credential file f.
Constructed(f, readable) ==
  LET r == load_existing_token(NewManager, f, readable) IN
  /\ token_file = f
  /\ access_token = r.m.access_token
  /\ kite_token = r.m.kite_token
  /\ authenticated = r.m.authenticated
  /\ ret = r.ret
  /\ op = "__init__"
  /\ outcome = "returned"
  /\ auth_before = FALSE
  /\ exchanged = None
  /\ session_requests = 0
  /\ trace = <<>>
  /\ report = NoReport
  /\ pc = "idle"
  /\ idx = 1
  /\ data = NoData
  /\ success_count = 0

\* The credential file as a previous run or the user left it.
InitAuth ==
  /\ \E f \in {NoFile} \cup BoundedSeq(TokChars, MaxTokLen), readable \in BOOLEAN :
       Constructed(f, readable)
  /\ dir_exists = FALSE
  /\ files = NoFiles

NextAuth ==
  \/ Construct
  \/ LoadExistingToken
  \/ AuthenticateWithToken
  \/ GetLoginUrl

AuthSpec == InitAuth /\ [][NextAuth]_vars

\* The data directory as previous runs or the user left it.
InitData ==
  /\ \E f \in {NoFile, <<"a">>}, readable \in BOOLEAN : Constructed(f, readable)
  /\ dir_exists \in BOOLEAN
  /\ files \in [FileNames -> {Absent, File(TRUE, Series(1)), SubDir}]
  /\ ~dir_exists => files = NoFiles
  /\ \A s \in StockSet : files[Csv(s)] # SubDir
  /\ files[DoubleCsv] # SubDir
  /\ files[Notes] # SubDir
  /\ files[Archive] \in {Absent, SubDir}

NextData ==
  \/ Construct
  \/ FetchAndSaveData
  \/ FetchHistoricalData
  \/ SaveDataToCsv
  \/ GetStatusReport

DataSpec == InitData /\ [][NextData]_vars

\* ------------------------------------------------------------------ properties
\* A step that calls fetch_and_save_data, authenticate_with_token,
\* get_status_report: every operation starts from "idle" and names itself.
Calls(name) == pc = "idle" /\ op' = name

\* C1: fetch_and_save_data called while is_authenticated() is false returns
\* False at once: no provider request is issued, the data directory is not
\* created and no file is created or modified.
C1_UnauthenticatedFetchTouchesNothing ==
  [][(Calls("fetch_and_save_data") /\ ~authenticated)
       => /\ outcome' = "returned"
          /\ ret' = FALSE
          /\ pc' = "idle"
          /\ trace' = <<>>
          /\ dir_exists' = dir_exists
          /\ files' = files
          /\ token_file' = token_file]_vars

C1_Witness ==
  /\ op = "fetch_and_save_data"
  /\ ~auth_before
  /\ outcome = "returned"
  /\ ret = FALSE
  /\ ~dir_exists

\* C2: a manager constructed with no credential file is not authenticated;
\* the flag is true right after a load_existing_token or
\* authenticate_with_token that returned success, and false after an
\* authenticate_with_token that failed, whatever the flag was before.
C2_FlagFollowsLastCall ==
  /\ (op = "__init__" /\ token_file = NoFile) => ~authenticated
  /\ (op \in {"__init__", "load_existing_token", "authenticate_with_token"} /\ ret)
       => authenticated
  /\ (op = "authenticate_with_token" /\ ~ret) => ~authenticated

C2_Witness ==
  /\ op = "authenticate_with_token"
  /\ ~ret
  /\ auth_before
  /\ ~authenticated

\* C3: an authenticate_with_token that returns failure leaves the flag false
\* and the credential file as it was (not created, not modified).
C3_FailedExchangeLeavesFile ==
  [][(Calls("authenticate_with_token") /\ ~ret')
       => (~authenticated' /\ token_file' = token_file)]_vars

\* C4 as claimed: after a successful exchange with token T the credential file
\* holds exactly T, and a manager constructed afterwards is authenticated with
\* T in memory and on the client, without an exchange.
C4_Original ==
  /\ (op = "authenticate_with_token" /\ ret) => token_file = exchanged
  /\ (op = "__init__" /\ exchanged # None)
       => /\ authenticated
          /\ access_token = exchanged
          /\ kite_token = exchanged
          /\ session_requests = 0

\* C4 amended: after a successful exchange with token T the credential file
\* holds exactly T; a manager constructed afterwards makes no exchange, and if
\* it can read the file it is authenticated with T stripped of surrounding
\* whitespace in memory and on the client, else it is not authenticated.
C4_PersistedTokenIsLoadedStripped ==
  /\ (op = "authenticate_with_token" /\ ret) => token_file = exchanged
  /\ (op = "__init__" /\ exchanged # None)
       => /\ session_requests = 0
          /\ authenticated = ret
          /\ ret => /\ access_token = rstrip(lstrip(exchanged))
                    /\ kite_token = rstrip(lstrip(exchanged))

C4_Witness ==
  /\ op = "__init__"
  /\ exchanged # None
  /\ authenticated
  /\ token_file = exchanged
  /\ access_token = exchanged

\* Positions j < k of two provider requests with no request between them.
ConsecutiveRequests(j, k) ==
  /\ j < k
  /\ trace[j].e = "request"
  /\ trace[k].e = "request"
  /\ \A m \in (j + 1)..(k - 1) : trace[m].e # "request"

SleepsBetween(j, k) ==
  Cardinality({m \in (j + 1)..(k - 1) : trace[m].e = "sleep"})

ReturnedDataBetween(j, k) ==
  \E m \in (j + 1)..(k - 1) : trace[m].e = "fetch" /\ trace[m].ok

Attempts ==
  [k \in 1..Len(SelectSeq(trace, LAMBDA ev : ev.e \in {"fetch", "save"})) |->
     LET ev == SelectSeq(trace, LAMBDA x : x.e \in {"fetch", "save"})[k]
     IN  <<ev.e, ev.sym>>]

ExpectedAttempts ==
  [k \in 1..(2 * Len(STOCKS)) |->
     IF k % 2 = 1 THEN <<"fetch", STOCKS[(k + 1) \div 2]>>
     ELSE <<"save", STOCKS[k \div 2]>>]

FetchedAndSaved ==
  {s \in StockSet :
     /\ \E m \in DOMAIN trace : trace[m] = Event("fetch", s, TRUE)
     /\ \E m \in DOMAIN trace : trace[m] = Event("save", s, TRUE)}

\* C5: a fetch_and_save_data called while authenticated attempts fetch then
\* save for every configured symbol once, in list order, and its success
\* count is the number of symbols both fetched and saved.
C5_EverySymbolAttempted ==
  (op = "fetch_and_save_data" /\ auth_before /\ outcome # "running")
    => /\ Attempts = ExpectedAttempts
       /\ success_count = Cardinality(FetchedAndSaved)

\* C6: no failure of an external call leaves an operation as an exception.
C6_NoExceptionEscapes == outcome # "raised"

\* C7 as claimed: between two consecutive provider requests of a run there is
\* a sleep, whatever the first request's outcome.
C7_Original ==
  \A j, k \in DOMAIN trace :
    ConsecutiveRequests(j, k) => SleepsBetween(j, k) >= 1

\* C7 amended: between two consecutive provider requests of a run there is
\* exactly one sleep when the first request's fetch returned data, and none
\* when it returned nothing or raised.
C7_SleepOnlyAfterData ==
  \A j, k \in DOMAIN trace :
    ConsecutiveRequests(j, k)
      => SleepsBetween(j, k) = IF ReturnedDataBetween(j, k) THEN 1 ELSE 0

C7_Witness ==
  \E j, k \in DOMAIN trace :
    /\ ConsecutiveRequests(j, k)
    /\ ReturnedDataBetween(j, k)
    /\ SleepsBetween(j, k) = 1

\* C8: a save_data_to_csv that returns False has written nothing: the
\* symbol's file is absent or holds its previous content.
C8_FailedSaveWritesNothing ==
  [][(pc = "save" /\ ~trace'[Len(trace')].ok) => files' = files]_vars

\* The symbols get_status_report finds a file for: the names of the .csv
\* entries with every ".csv" removed.
Covered(fs) ==
  {s \in StockSet :
     \E name \in FileNames :
       /\ fs[name].kind # "absent"
       /\ name[Len(name)] = ".csv"
       /\ SelectSeq(name, LAMBDA part : part # ".csv") = <<s>>}

C10_Original ==
  authenticated
    => /\ access_token # None
       /\ kite_token = access_token
       /\ token_file # NoFile
       /\ access_token = rstrip(lstrip(token_file))

\* C10 amended: whenever the flag is true the in-memory token is set, is the
\* one installed on the client, and equals the credential file's content up to
\* surrounding whitespace.
C10_TokenMatchesFileUpToWhitespace ==
  authenticated
    => /\ access_token # None
       /\ kite_token = access_token
       /\ token_file # NoFile
       /\ rstrip(lstrip(access_token)) = rstrip(lstrip(token_file))

C10_Witness ==
  /\ authenticated
  /\ op = "load_existing_token"
  /\ token_file # access_token
  /\ access_token = rstrip(lstrip(token_file))

====
